---- MODULE Spec2Model ----
(***************************************************************************)
(* Model of the FieldUploads server (src/server.py): the POST /upload      *)
(* pipeline (validate, save, ensure_jpeg, EXIF GPS, stamp, put image,      *)
(* ledger fetch / append / save / put, cleanup), the local /tmp directory  *)
(* and the B2 bucket, with several requests in flight.                     *)
(*                                                                         *)
(* Strings that the code inspects character by character (paths, file      *)
(* names, task ids) are sequences of one-character strings, so that        *)
(* str.lower, str.strip, os.path.splitext and os.path.basename are         *)
(* computed as Python computes them.                                       *)
(***************************************************************************)
EXTENDS Integers, Sequences, FiniteSets, TLC

(* ---------------------------- bounds ----------------------------------- *)
\* number of worker threads of the HTTP layer that may run upload() at once
MaxWorkers == 2
\* uploads started in one run
MaxUploads == 2
\* seconds the wall clock may advance (datetime.now() has 1 s resolution here)
MaxClock == 1

(* ------------------------ program constants ---------------------------- *)
ENABLE_EXIF == TRUE
STAMP_ON_SAVE == TRUE
IMAGES_PREFIX == <<"i", "m", "a", "g", "e", "s", "/">>
EXCEL_KEY == "TaskLog.xlsx"
\* tmp_excel = "/tmp/TaskLog.xlsx"
TMP_EXCEL == <<"/", "t", "m", "p", "/", "T", "a", "s", "k", "L", "o", "g", ".", "x", "l", "s", "x">>
HEADER == <<"TaskNo", "StationNo", "Notes", "ImageName",
            "Latitude", "Longitude", "Timestamp", "Image URL">>

NoFile == "NoFile"
None == "None"

(* ------------------------ Python string functions ---------------------- *)
\* str.lower() on one character
LowerChar(c) ==
    CASE c = "A" -> "a" [] c = "G" -> "g" [] c = "J" -> "j" [] c = "N" -> "n"
      [] c = "P" -> "p" [] c = "T" -> "t" [] OTHER -> c

Lower(s) == [i \in 1..Len(s) |-> LowerChar(s[i])]

IsSpace(c) == c = " "

\* str.strip(): drop leading and trailing whitespace
RECURSIVE LStrip(_)
LStrip(s) == IF s # <<>> /\ IsSpace(Head(s)) THEN LStrip(Tail(s)) ELSE s

RECURSIVE RStrip(_)
RStrip(s) ==
    IF s # <<>> /\ IsSpace(s[Len(s)]) THEN RStrip(SubSeq(s, 1, Len(s) - 1)) ELSE s

Strip(s) == RStrip(LStrip(s))

\* index of the last occurrence of c in s, or 0
LastIndex(s, c) ==
    LET I == {i \in 1..Len(s) : s[i] = c}
    IN IF I = {} THEN 0 ELSE CHOOSE i \in I : \A j \in I : j <= i

\* os.path.splitext (posixpath): the extension starts at the last dot of the
\* last path component, unless that component has only leading dots before it
splitext(p) ==
    LET sep == LastIndex(p, "/")
        dot == LastIndex(p, ".")
        lead == \A i \in (sep + 1)..dot : p[i] = "."
    IN IF dot > sep /\ ~lead
       THEN <<SubSeq(p, 1, dot - 1), SubSeq(p, dot, Len(p))>>
       ELSE <<p, <<>> >>

\* os.path.basename
basename(p) == SubSeq(p, LastIndex(p, "/") + 1, Len(p))

EndsWith(s, t) ==
    Len(s) >= Len(t) /\ SubSeq(s, Len(s) - Len(t) + 1, Len(s)) = t

DotJpg == <<".", "j", "p", "g">>
DotJpeg == <<".", "j", "p", "e", "g">>

\* strftime('%Y%m%d%H%M%S') of the clock: one rendering per second
TsStr(t) == <<"s", CASE t = 0 -> "0" [] t = 1 -> "1" [] t = 2 -> "2"
                     [] t = 3 -> "3" [] OTHER -> "9">>

\* f"/tmp/{task_id}_{ts}_{image.filename}"
TmpPath(task_id, t, filename) ==
    <<"/", "t", "m", "p", "/">> \o task_id \o <<"_">> \o TsStr(t) \o <<"_">> \o filename

(* ------------------------------ floats --------------------------------- *)
\* float(s) on the coordinate strings of the model. A finite value is kept in
\* hundredths of an arc-second (1 degree = 360000), NaN and the infinities
\* are the values Python's float() returns for "nan" and "inf"; every other
\* string raises ValueError.
float(s) ==
    CASE s = "24.7136" -> [kind |-> "finite", v |-> 8896896]
      [] s = "46.6753" -> [kind |-> "finite", v |-> 16803108]
      [] s = "-33.5"   -> [kind |-> "finite", v |-> 0 - 12060000]
      [] s = "nan"     -> [kind |-> "nan", v |-> 0]
      [] s = "inf"     -> [kind |-> "inf", v |-> 0]
      [] OTHER         -> [kind |-> "ValueError", v |-> 0]

Abs(x) == IF x < 0 THEN 0 - x ELSE x

RECURSIVE GCD(_, _)
GCD(a, b) == IF b = 0 THEN a ELSE GCD(b, a % b)

\* Fraction(x).limit_denominator() as (numerator, denominator) in lowest terms
\* of num/den
_rat(num, den) ==
    LET g == GCD(num, den) IN IF g = 0 THEN <<0, 1>> ELSE <<num \div g, den \div g>>

\* _deg_to_dms_rationals: int(abs(x)) raises ValueError on NaN and
\* OverflowError on an infinity
_deg_to_dms_rationals(x) ==
    IF x.kind = "nan" THEN [raised |-> "ValueError", dms |-> <<>>]
    ELSE IF x.kind = "inf" THEN [raised |-> "OverflowError", dms |-> <<>>]
    ELSE LET a == Abs(x.v)
             deg == a \div 360000
             minutes == (a % 360000) \div 6000
             seconds == a % 6000
         IN [raised |-> None,
             dms |-> <<_rat(deg, 1), _rat(minutes, 1), _rat(seconds, 100)>>]

(* ------------------------------- state --------------------------------- *)
Workers == 1..MaxWorkers

VARIABLES
    clock,           \* datetime.now(), in seconds
    b2_env,          \* B2_KEY_ID, B2_APP_KEY and B2_BUCKET are all set
    PEX_OK,          \* piexif could be imported
    b2_images,       \* keys under images/ in the bucket
    b2_ledger,       \* TaskLog.xlsx in the bucket: NoFile or its rows
    fs,              \* image files under /tmp: path -> content
    tmp_excel_file,  \* /tmp/TaskLog.xlsx: NoFile or its rows
    pc,              \* position of each worker inside upload()
    form,            \* the request each worker is serving
    loc,             \* upload()'s local variables (n: serial number of the request)
    resp,            \* the response each worker returned
    touched,         \* local paths read or written by the request in flight
    last_put,        \* worker whose b2_upload_local of the ledger came last
    started          \* uploads begun so far

vars == <<clock, b2_env, PEX_OK, b2_images, b2_ledger, fs, tmp_excel_file,
          pc, form, loc, resp, touched, last_put, started>>

NoForm == [has_image |-> FALSE, filename |-> <<>>, task_id |-> <<>>,
           station_id |-> "", note |-> "", latitude |-> "", longitude |-> ""]

NoLoc == [n |-> 0, task_id |-> <<>>, tmp_path |-> <<>>, final_path |-> <<>>,
          exif_ok |-> FALSE, stamp_ok |-> FALSE, fname_only |-> <<>>,
          img_url |-> <<>>, dl_ok |-> FALSE, fetched |-> NoFile, wb |-> <<>>]

NoResp == [status |-> 0, ok |-> FALSE, saved |-> <<>>, url |-> <<>>,
           exif_gps_written |-> FALSE, stamped |-> FALSE, error |-> ""]

InFlight(r) == pc[r] \notin {"idle", "done"}

Init ==
    /\ clock = 0
    /\ b2_env \in BOOLEAN
    /\ PEX_OK \in BOOLEAN
    /\ b2_images = {}
    /\ b2_ledger = NoFile
    /\ fs = << >>
    /\ tmp_excel_file = NoFile
    /\ pc = [r \in Workers |-> "idle"]
    /\ form = [r \in Workers |-> NoForm]
    /\ loc = [r \in Workers |-> NoLoc]
    /\ resp = [r \in Workers |-> NoResp]
    /\ touched = [r \in Workers |-> {}]
    /\ last_put = 0
    /\ started = 0

(* ----------------------- the local file system ------------------------- *)
Exists(path) == path \in DOMAIN fs

\* the file system after writing content c at path
Write(f, path, c) == [q \in DOMAIN f \cup {path} |-> IF q = path THEN c ELSE f[q]]

\* the file system after os.remove(path)
Remove(f, path) == [q \in DOMAIN f \ {path} |-> f[q]]

\* the payload as image.save(tmp_path) stores it
Payload == [fmt |-> "as received", gps |-> None, stamped |-> FALSE]

(* ----------------------- decisions of the code ------------------------- *)
\* ValidationError without the task_id check of line 282
ValidationError_NoTaskCheck(f) ==
    IF ~f.has_image THEN "no image part"
    ELSE IF f.filename = <<>> THEN "empty filename"
    ELSE None

\* upload(): the checks before the first side effect; None when all pass
ValidationError(f) ==
    IF ~f.has_image THEN "no image part"
    ELSE IF Strip(f.task_id) = <<>> THEN "task_id required"
    ELSE IF f.filename = <<>> THEN "empty filename"
    ELSE None

\* ensure_jpeg: is the extension of the lower-cased path .jpg or .jpeg
IsJpegPath(local_path) == splitext(Lower(local_path))[2] \in {DotJpg, DotJpeg}

\* JpegOut keeping the extension of the input: out = base + ext
JpegOut_KeepExt(local_path) ==
    splitext(Lower(local_path))[1] \o splitext(Lower(local_path))[2]

\* ensure_jpeg: out = base + ".jpg", base taken from the lower-cased path
JpegOut(local_path) == splitext(Lower(local_path))[1] \o DotJpg

\* ExcelAfterEnsure that always starts a new workbook
ExcelAfterEnsure_AlwaysNew(stored, dl_ok) == <<HEADER>>

\* ensure_excel_exists_locally: the local document after the download attempt
ExcelAfterEnsure(stored, dl_ok) == IF dl_ok THEN stored ELSE <<HEADER>>

\* ws.append(row)
AppendRow(doc, row) == Append(doc, row)

\* the row appended by append_record_to_excel_and_upload
LedgerRow(task_id, station_id, note, img_name, lat, lon, ts, img_url) ==
    <<task_id, station_id, note, img_name, lat, lon, ts, img_url>>

\* f"{base}/images/{fname_only}"
ImgUrl(fname_only) == <<"h", "/">> \o IMAGES_PREFIX \o fname_only

\* the except clause of upload(): HTTP 500 with ok = False
Raise(r, e) ==
    /\ pc' = [pc EXCEPT ![r] = "done"]
    /\ resp' = [resp EXCEPT ![r] = [NoResp EXCEPT !.status = 500, !.error = e]]

(* ------------------------------ requests ------------------------------- *)
\* a well-formed request
Form0 ==
    [has_image |-> TRUE, filename |-> <<"a", ".", "p", "n", "g">>,
     task_id |-> <<"T">>, station_id |-> "S9", note |-> "ok",
     latitude |-> "24.7136", longitude |-> "46.6753"]

\* one request for each way of failing the checks of upload()
FormsRejected ==
    {[Form0 EXCEPT !.has_image = FALSE, !.filename = <<>>],
     [Form0 EXCEPT !.task_id = <<>>],
     [Form0 EXCEPT !.task_id = <<" ">>],
     [Form0 EXCEPT !.filename = <<>>]}

\* the requests of the concurrent specification: two file names
FormsSmall ==
    {Form0, [Form0 EXCEPT !.filename = <<"a", ".", "j", "p", "g">>]} \cup FormsRejected

\* the requests of the sequential specification
FormsSeq == {Form0} \cup FormsRejected

\* the requests of the single-request specification: every extension and
\* letter case of the file name, every kind of task id and coordinate string
\* (the coordinate strings are given as request.form.get(..).strip() leaves them)
FileNames ==
    {<<>>, <<"a", ".", "p", "n", "g">>, <<"A", ".", "P", "N", "G">>,
     <<"a", ".", "j", "p", "g">>, <<"a", ".", "J", "P", "G">>,
     <<"a", ".", "j", "p", "e", "g">>, <<"a">>}

Coordinates == {"", "abc", "24.7136", "-33.5", "nan", "inf"}

FormsAll ==
    [has_image : BOOLEAN, filename : FileNames,
     task_id : {<<>>, <<" ">>, <<" ", "T">>, <<"T">>},
     station_id : {"S9"}, note : {"ok"},
     latitude : Coordinates, longitude : Coordinates]

(* ------------------------------ upload() ------------------------------- *)
\* lines 270-289: read the form, validate, save the payload under /tmp
Begin(r, F) ==
    /\ pc[r] \in {"idle", "done"}
    /\ started < MaxUploads
    /\ started' = started + 1
    /\ \E f \in F :
        /\ form' = [form EXCEPT ![r] = f]
        /\ IF ValidationError(f) # None
           THEN /\ pc' = [pc EXCEPT ![r] = "done"]
                /\ resp' = [resp EXCEPT ![r] =
                       [NoResp EXCEPT !.status = 400, !.error = ValidationError(f)]]
                /\ loc' = [loc EXCEPT ![r] = [NoLoc EXCEPT !.n = started + 1]]
                /\ touched' = [touched EXCEPT ![r] = {}]
                /\ fs' = fs
           ELSE LET task_id == Strip(f.task_id)
                    tmp_path == TmpPath(task_id, clock, f.filename)
                IN /\ pc' = [pc EXCEPT ![r] = "ensure_jpeg"]
                   /\ resp' = [resp EXCEPT ![r] = NoResp]
                   /\ loc' = [loc EXCEPT ![r] =
                          [NoLoc EXCEPT !.n = started + 1, !.task_id = task_id,
                                        !.tmp_path = tmp_path]]
                   /\ touched' = [touched EXCEPT ![r] = {tmp_path}]
                   /\ fs' = Write(fs, tmp_path, Payload)
    /\ UNCHANGED <<clock, b2_env, PEX_OK, b2_images, b2_ledger, tmp_excel_file, last_put>>

\* lines 156-169 (called at 292)
EnsureJpeg(r) ==
    /\ pc[r] = "ensure_jpeg"
    /\ LET local_path == loc[r].tmp_path
           out == JpegOut(local_path)
       IN IF IsJpegPath(local_path)
          THEN /\ loc' = [loc EXCEPT ![r].final_path = local_path]
               /\ pc' = [pc EXCEPT ![r] = "exif"]
               /\ UNCHANGED <<fs, resp, touched>>
          ELSE \E outcome \in {"ok", "open fails", "save fails", "remove fails"} :
               IF outcome = "open fails" \/ ~Exists(local_path)
               THEN \* Image.open raises: nothing written
                    /\ Raise(r, "ensure_jpeg: open")
                    /\ UNCHANGED <<fs, loc, touched>>
               ELSE IF outcome = "save fails"
               THEN \* im.save raises after creating out
                    /\ Raise(r, "ensure_jpeg: save")
                    /\ fs' = Write(fs, out, [Payload EXCEPT !.fmt = "partial"])
                    /\ touched' = [touched EXCEPT ![r] = @ \cup {out}]
                    /\ UNCHANGED loc
               ELSE /\ fs' = IF outcome = "ok"
                             THEN Remove(Write(fs, out, [Payload EXCEPT !.fmt = "JPEG"]),
                                         local_path)
                             ELSE Write(fs, out, [Payload EXCEPT !.fmt = "JPEG"])
                    /\ loc' = [loc EXCEPT ![r].final_path = out]
                    /\ touched' = [touched EXCEPT ![r] = @ \cup {out}]
                    /\ pc' = [pc EXCEPT ![r] = "exif"]
                    /\ UNCHANGED resp
    /\ UNCHANGED <<clock, b2_env, PEX_OK, b2_images, b2_ledger, tmp_excel_file,
                   form, last_put, started>>

\* what write_gps_exif_jpeg_inplace does with its two strings, lines 116-127:
\* "False" (returns False early), "raise" (an exception leaves the function)
\* or "write" (the try block of lines 128-154 runs)
GpsDecision(pex, lat_s, lon_s) ==
    IF ~(ENABLE_EXIF /\ pex) THEN "False"
    ELSE IF float(lat_s).kind = "ValueError" \/ float(lon_s).kind = "ValueError"
    THEN "False"
    ELSE IF _deg_to_dms_rationals(float(lat_s)).raised # None
            \/ _deg_to_dms_rationals(float(lon_s)).raised # None
    THEN "raise"
    ELSE "write"

\* the GPS IFD written at lines 139-144
GpsIfd(lat_s, lon_s) ==
    <<IF float(lat_s).v >= 0 THEN "N" ELSE "S",
      _deg_to_dms_rationals(float(lat_s)).dms,
      IF float(lon_s).v >= 0 THEN "E" ELSE "W",
      _deg_to_dms_rationals(float(lon_s)).dms>>

\* line 293: write_gps_exif_jpeg_inplace(final_path, latitude, longitude)
WriteGps(r) ==
    /\ pc[r] = "exif"
    /\ LET p == loc[r].final_path
           d == GpsDecision(PEX_OK, form[r].latitude, form[r].longitude)
       IN IF d = "False"
          THEN /\ loc' = [loc EXCEPT ![r].exif_ok = FALSE]
               /\ pc' = [pc EXCEPT ![r] = "stamp"]
               /\ UNCHANGED <<fs, resp, touched>>
          ELSE IF d = "raise"
          THEN /\ Raise(r, "write_gps_exif_jpeg_inplace")
               /\ UNCHANGED <<fs, loc, touched>>
          ELSE \E io_ok \in BOOLEAN :
               /\ IF io_ok /\ Exists(p)
                  THEN /\ fs' = Write(fs, p, [fs[p] EXCEPT !.fmt = "JPEG",
                                  !.gps = GpsIfd(form[r].latitude, form[r].longitude)])
                       /\ loc' = [loc EXCEPT ![r].exif_ok = TRUE]
                  ELSE /\ fs' = fs
                       /\ loc' = [loc EXCEPT ![r].exif_ok = FALSE]
               /\ pc' = [pc EXCEPT ![r] = "stamp"]
               /\ UNCHANGED <<resp, touched>>
    /\ UNCHANGED <<clock, b2_env, PEX_OK, b2_images, b2_ledger, tmp_excel_file,
                   form, last_put, started>>

\* lines 294-306: stamp_text_on_image catches every exception
Stamp(r) ==
    /\ pc[r] = "stamp"
    /\ LET p == loc[r].final_path
       IN \E io_ok \in BOOLEAN :
          IF STAMP_ON_SAVE /\ io_ok /\ Exists(p)
          THEN /\ fs' = Write(fs, p, [fs[p] EXCEPT !.fmt = "JPEG", !.stamped = TRUE])
               /\ loc' = [loc EXCEPT ![r].stamp_ok = TRUE]
          ELSE /\ fs' = fs
               /\ loc' = [loc EXCEPT ![r].stamp_ok = FALSE]
    /\ pc' = [pc EXCEPT ![r] = "upload_image"]
    /\ UNCHANGED <<clock, b2_env, PEX_OK, b2_images, b2_ledger, tmp_excel_file,
                   form, resp, touched, last_put, started>>

\* lines 309-315: b2_upload_local(final_path, b2_key); b2_connect raises
\* RuntimeError without the environment variables
UploadImage(r) ==
    /\ pc[r] = "upload_image"
    /\ LET p == loc[r].final_path
           fname_only == basename(p)
       IN \E put_ok \in BOOLEAN :
          IF ~b2_env
          THEN /\ Raise(r, "RuntimeError: Missing B2 env vars")
               /\ UNCHANGED <<b2_images, loc>>
          ELSE IF ~put_ok \/ ~Exists(p)
          THEN /\ Raise(r, "b2_upload_local")
               /\ UNCHANGED <<b2_images, loc>>
          ELSE /\ b2_images' = b2_images \cup {IMAGES_PREFIX \o fname_only}
               /\ loc' = [loc EXCEPT ![r].fname_only = fname_only,
                                     ![r].img_url = ImgUrl(fname_only)]
               /\ pc' = [pc EXCEPT ![r] = "excel_fetch"]
               /\ UNCHANGED resp
    /\ UNCHANGED <<clock, b2_env, PEX_OK, b2_ledger, fs, tmp_excel_file,
                   form, touched, last_put, started>>

\* lines 203-212 (called at 216): b2_download_to returns False on any
\* exception, whether the key is absent or the download broke
EnsureExcel(r) ==
    /\ pc[r] = "excel_fetch"
    /\ \E transfer_ok \in BOOLEAN :
        LET dl_ok == b2_ledger # NoFile /\ transfer_ok
        IN /\ tmp_excel_file' = ExcelAfterEnsure(b2_ledger, dl_ok)
           /\ loc' = [loc EXCEPT ![r].dl_ok = dl_ok, ![r].fetched = b2_ledger]
    /\ touched' = [touched EXCEPT ![r] = @ \cup {TMP_EXCEL}]
    /\ pc' = [pc EXCEPT ![r] = "excel_load"]
    /\ UNCHANGED <<clock, b2_env, PEX_OK, b2_images, b2_ledger, fs, form, resp,
                   last_put, started>>

\* lines 217-224: load_workbook(tmp_excel), ws.append(row), the hyperlink
LoadAppend(r) ==
    /\ pc[r] = "excel_load"
    /\ \E load_ok \in BOOLEAN :
        IF ~load_ok \/ tmp_excel_file = NoFile
        THEN /\ Raise(r, "load_workbook")
             /\ UNCHANGED loc
        ELSE /\ loc' = [loc EXCEPT ![r].wb =
                   AppendRow(tmp_excel_file,
                             LedgerRow(loc[r].task_id, form[r].station_id, form[r].note,
                                       loc[r].fname_only, form[r].latitude,
                                       form[r].longitude, clock, loc[r].img_url))]
             /\ pc' = [pc EXCEPT ![r] = "excel_save"]
             /\ UNCHANGED resp
    /\ UNCHANGED <<clock, b2_env, PEX_OK, b2_images, b2_ledger, fs, tmp_excel_file,
                   form, touched, last_put, started>>

\* line 225: wb.save(tmp_excel)
SaveExcel(r) ==
    /\ pc[r] = "excel_save"
    /\ \E save_ok \in BOOLEAN :
        IF ~save_ok
        THEN /\ Raise(r, "wb.save")
             /\ UNCHANGED tmp_excel_file
        ELSE /\ tmp_excel_file' = loc[r].wb
             /\ pc' = [pc EXCEPT ![r] = "excel_upload"]
             /\ UNCHANGED resp
    /\ UNCHANGED <<clock, b2_env, PEX_OK, b2_images, b2_ledger, fs, form, loc,
                   touched, last_put, started>>

\* line 226: b2_upload_local(tmp_excel, EXCEL_KEY) sends the file as it is now
UploadExcel(r) ==
    /\ pc[r] = "excel_upload"
    /\ \E put_ok \in BOOLEAN :
        IF ~put_ok
        THEN /\ Raise(r, "b2_upload_local")
             /\ UNCHANGED <<b2_ledger, last_put>>
        ELSE /\ b2_ledger' = tmp_excel_file
             /\ last_put' = r
             /\ pc' = [pc EXCEPT ![r] = "cleanup"]
             /\ UNCHANGED resp
    /\ UNCHANGED <<clock, b2_env, PEX_OK, b2_images, fs, tmp_excel_file, form, loc,
                   touched, started>>

\* lines 320-332: os.remove(final_path), errors ignored, then the response
Respond(r) ==
    /\ pc[r] = "cleanup"
    /\ \E rm_ok \in BOOLEAN :
        fs' = IF rm_ok THEN Remove(fs, loc[r].final_path) ELSE fs
    /\ resp' = [resp EXCEPT ![r] =
           [status |-> 200, ok |-> TRUE, saved |-> loc[r].fname_only,
            url |-> loc[r].img_url,
            exif_gps_written |-> (loc[r].exif_ok /\ ENABLE_EXIF /\ PEX_OK),
            stamped |-> loc[r].stamp_ok, error |-> ""]]
    /\ pc' = [pc EXCEPT ![r] = "done"]
    /\ UNCHANGED <<clock, b2_env, PEX_OK, b2_images, b2_ledger, tmp_excel_file,
                   form, loc, touched, last_put, started>>

\* the wall clock reaches the next second
Tick ==
    /\ clock < MaxClock
    /\ clock' = clock + 1
    /\ UNCHANGED <<b2_env, PEX_OK, b2_images, b2_ledger, fs, tmp_excel_file,
                   pc, form, loc, resp, touched, last_put, started>>

\* one step of worker r inside upload()
Step(r) ==
    \/ EnsureJpeg(r)
    \/ WriteGps(r)
    \/ Stamp(r)
    \/ UploadImage(r)
    \/ EnsureExcel(r)
    \/ LoadAppend(r)
    \/ SaveExcel(r)
    \/ UploadExcel(r)
    \/ Respond(r)

\* worker threads serve requests concurrently
Next ==
    \/ \E r \in Workers : Begin(r, FormsSmall)
    \/ \E r \in Workers : Step(r)
    \/ Tick

Spec == Init /\ [][Next]_vars

\* one worker: a request begins only after the previous one has been answered
NextSeq ==
    \/ Begin(1, FormsSeq)
    \/ Step(1)
    \/ Tick

SpecSeq == Init /\ [][NextSeq]_vars

\* one request, of any shape, served by a server that has just started
NextOne ==
    \/ started = 0 /\ Begin(1, FormsAll)
    \/ Step(1)
    \/ Tick

SpecOne == Init /\ [][NextOne]_vars

(* ------------------------------- claims -------------------------------- *)
IsPrefix(s, t) == Len(s) <= Len(t) /\ SubSeq(t, 1, Len(s)) = s

Blank(s) == \A i \in 1..Len(s) : s[i] = " "

\* the hard preconditions of an upload request, as the interface states them
Rejectable(f) == ~f.has_image \/ Blank(f.task_id) \/ f.filename = <<>>

\* the rows a request's field values can make, whatever second it is appended in
RowsOf(r) ==
    {<<loc[r].task_id, form[r].station_id, form[r].note, loc[r].fname_only,
       form[r].latitude, form[r].longitude, t, loc[r].img_url>> : t \in 0..MaxClock}

\* C1: when requests do not overlap and the storage calls of an append
\* succeed, the append leaves header + one row if no ledger was stored, and
\* the N stored rows followed by the new row otherwise.
C1_AppendAddsOneRow ==
    [][\A r \in Workers :
          (/\ pc[r] = "excel_upload"
           /\ pc'[r] = "cleanup"
           /\ (loc[r].fetched = NoFile \/ loc[r].dl_ok))
          => /\ loc[r].fetched = b2_ledger
             /\ b2_ledger = NoFile =>
                    /\ Len(b2_ledger') = 2
                    /\ b2_ledger'[1] = HEADER
                    /\ b2_ledger'[2] \in RowsOf(r)
             /\ b2_ledger # NoFile =>
                    /\ Len(b2_ledger') = Len(b2_ledger) + 1
                    /\ IsPrefix(b2_ledger, b2_ledger')
                    /\ b2_ledger'[Len(b2_ledger')] \in RowsOf(r)]_vars

\* a second append has just been stored on top of a downloaded ledger
C1_Witness ==
    \E r \in Workers :
        /\ pc[r] = "cleanup"
        /\ loc[r].dl_ok
        /\ b2_ledger # NoFile
        /\ Len(b2_ledger) = 3

\* C2: a request with a blank task id, no image part or an empty file name is
\* answered 400 and changes neither /tmp nor the bucket.
C2_RejectHasNoSideEffect ==
    [][\A r \in Workers :
          (/\ started' = started + 1
           /\ loc'[r].n = started'
           /\ Rejectable(form'[r]))
          => /\ resp'[r].status = 400
             /\ ~resp'[r].ok
             /\ pc'[r] = "done"
             /\ fs' = fs
             /\ tmp_excel_file' = tmp_excel_file
             /\ b2_images' = b2_images
             /\ b2_ledger' = b2_ledger]_vars

\* a request with an image and a whitespace task id was rejected while a
\* ledger was stored
C2_Witness ==
    \E r \in Workers :
        /\ resp[r].status = 400
        /\ form[r].has_image
        /\ form[r].task_id = <<" ">>
        /\ b2_ledger # NoFile

\* a request that put its image in the bucket, and so entered the ledger step
ReachedLedger(r) == loc[r].fname_only # <<>>

\* C3: a request whose ledger step fails (load, save or put of the ledger)
\* still ends with ok = true: every answered request that reached the ledger
\* step is a success.
C3_LedgerFailureStillOk ==
    \A r \in Workers :
        (pc[r] = "done" /\ resp[r].status # 400 /\ ReachedLedger(r)) => resp[r].ok

\* C4: a request that passes the two hard preconditions never fails because
\* of an optional stage: no 500 answer comes from the geotag write, the
\* caption stamp or the missing storage configuration.
C4_OptionalStageNeverFails ==
    \A r \in Workers :
        (pc[r] = "done" /\ ~Rejectable(form[r]) /\ resp[r].status = 500)
        => resp[r].error \notin {"write_gps_exif_jpeg_inplace", "stamp_text_on_image",
                                 "RuntimeError: Missing B2 env vars"}

\* C5: write_gps_exif_jpeg_inplace always returns to upload(), which goes on
\* to the stamp; with a string float() rejects it returns False and leaves
\* /tmp as it was.
C5_GeotagNeverRaises ==
    [][\A r \in Workers :
          (pc[r] = "exif" /\ pc'[r] # "exif")
          => /\ pc'[r] = "stamp"
             /\ (float(form[r].latitude).kind = "ValueError"
                 \/ float(form[r].longitude).kind = "ValueError")
                => (~loc'[r].exif_ok /\ fs' = fs)]_vars

\* C6: after two overlapping requests have both answered ok, the stored
\* ledger is the workbook written by the request whose put came last.
C6_LastWriterWins ==
    (last_put # 0 /\ \A r \in Workers : pc[r] = "done" /\ resp[r].ok)
    => b2_ledger = loc[last_put].wb

\* C7: two requests in flight never share a local path.
C7_TempPathsUnique ==
    \A r1, r2 \in Workers :
        (r1 # r2 /\ InFlight(r1) /\ InFlight(r2))
        => touched[r1] \cap touched[r2] = {}

\* C8: the name reported by a successful upload ends in ".jpg".
C8_SavedEndsInDotJpg ==
    \A r \in Workers : resp[r].ok => EndsWith(resp[r].saved, DotJpg)

\* C8 as amended: the name reported by a successful upload, which is its
\* storage key and the image name of its ledger row, has the extension .jpg
\* or .jpeg up to letter case; it ends in ".jpg" exactly whenever the
\* original name did not already have one of these extensions.
C8_SavedHasJpegExtension ==
    \A r \in Workers :
        resp[r].ok =>
            /\ splitext(Lower(resp[r].saved))[2] \in {DotJpg, DotJpeg}
            /\ splitext(Lower(form[r].filename))[2] \notin {DotJpg, DotJpeg}
                   => EndsWith(resp[r].saved, DotJpg)
            /\ splitext(Lower(form[r].filename))[2] \in {DotJpg, DotJpeg}
                   => EndsWith(resp[r].saved, form[r].filename)
            /\ (IMAGES_PREFIX \o resp[r].saved) \in b2_images
            /\ loc[r].wb[Len(loc[r].wb)][4] = resp[r].saved

\* a successful upload of a file named with an upper-case JPEG extension
C8_Witness ==
    \E r \in Workers :
        /\ resp[r].ok
        /\ form[r].filename = <<"a", ".", "J", "P", "G">>
        /\ resp[r].saved # <<>>

\* C9: ensure_jpeg on a name that is not .jpg/.jpeg leaves exactly one of the
\* two files: on return the output exists and the source is gone, on an
\* exception the source still exists.
C9_ExactlyOneFile ==
    [][\A r \in Workers :
          (pc[r] = "ensure_jpeg" /\ pc'[r] # "ensure_jpeg"
           /\ splitext(Lower(loc[r].tmp_path))[2] \notin {DotJpg, DotJpeg})
          => /\ pc'[r] = "exif" =>
                    /\ loc'[r].final_path \in DOMAIN fs'
                    /\ loc[r].tmp_path \notin DOMAIN fs'
             /\ pc'[r] = "done" => loc[r].tmp_path \in DOMAIN fs']_vars

\* C10: once a ledger is stored, every later change of it keeps the stored
\* rows as a prefix.
C10_StoredRowsKept ==
    [][(b2_ledger # NoFile /\ b2_ledger' # b2_ledger)
          => (b2_ledger' # NoFile /\ IsPrefix(b2_ledger, b2_ledger'))]_vars

====
